---------------------------- MODULE Spec2Model ----------------------------
(***************************************************************************)
(* Model of mlir/lib/ExecutionEngine/Float16bits.cpp (the f16 / bf16       *)
(* codecs) and of sycl/source/detail/kernel_bundle_impl.cpp                *)
(* (kernel_bundle_impl::select_image_for_kernel).                          *)
(*                                                                         *)
(* A uint32_t is a record [hi, lo] of two 16-bit limbs, so that every      *)
(* 32-bit operation of the source (addition modulo 2^32, shifts, masks,    *)
(* unsigned comparison) is computed at its width.  A float is the 32-bit   *)
(* pattern of the union Float32Bits; the two host float operations the     *)
(* source uses (f.f += denormMagic.f, f.f -= kF32Magic.f) are computed by  *)
(* a binary32 adder with guard, round and sticky bits, rounding to         *)
(* nearest, ties to even.  Reading the union member that was not written   *)
(* last is the reinterpretation of the same 32 bits, as the compilers the  *)
(* file is built with define it.                                           *)
(***************************************************************************)
EXTENDS Integers, Sequences, FiniteSets

VARIABLES pc,                          \* position of the modelled caller
          halfValue,                   \* a 16-bit pattern (f16::bits / bf16::bits)
          floatValue,                  \* a binary32 pattern, [hi, lo]
          result,                      \* the 16-bit pattern an encoder returned
          MDeviceImages,               \* kernel_bundle_impl::MDeviceImages
          idx,                         \* position of the range-for loop
          SelectedImage,               \* 0 is nullptr, n is MDeviceImages[n]
          ImageWithReplacedSpecConsts,
          OriginalImage,
          SpecConstsSet

vars == <<pc, halfValue, floatValue, result, MDeviceImages, idx, SelectedImage,
          ImageWithReplacedSpecConsts, OriginalImage, SpecConstsSet>>

codecVars == <<pc, halfValue, floatValue, result>>

bundleVars == <<MDeviceImages, idx, SelectedImage, ImageWithReplacedSpecConsts,
                OriginalImage, SpecConstsSet>>

---------------------------------------------------------------------------
(* Bounds of the model.                                                    *)

\* Mantissas of the binary32 inputs lie within Spread of the rounding
\* boundaries of the two encoders.
Spread == 1

\* Longest MDeviceImages.
MaxImages == 3

---------------------------------------------------------------------------
(* 16-bit and 32-bit unsigned arithmetic.                                  *)

RECURSIVE Pow2(_)
Pow2(n) == IF n = 0 THEN 1 ELSE 2 * Pow2(n - 1)

RECURSIVE BitAnd(_, _)
BitAnd(a, b) ==
    IF a = 0 \/ b = 0 THEN 0
    ELSE (a % 2) * (b % 2) + 2 * BitAnd(a \div 2, b \div 2)

RECURSIVE BitOr(_, _)
BitOr(a, b) ==
    IF a = 0 THEN b
    ELSE IF b = 0 THEN a
    ELSE (IF a % 2 = 1 \/ b % 2 = 1 THEN 1 ELSE 0) + 2 * BitOr(a \div 2, b \div 2)

RECURSIVE BitXor(_, _)
BitXor(a, b) ==
    IF a = 0 THEN b
    ELSE IF b = 0 THEN a
    ELSE ((a + b) % 2) + 2 * BitXor(a \div 2, b \div 2)

U32(h, l) == [hi |-> h, lo |-> l]

And32(a, b) == U32(BitAnd(a.hi, b.hi), BitAnd(a.lo, b.lo))

Or32(a, b) == U32(BitOr(a.hi, b.hi), BitOr(a.lo, b.lo))

Xor32(a, b) == U32(BitXor(a.hi, b.hi), BitXor(a.lo, b.lo))

\* a + b modulo 2^32
Add32(a, b) ==
    LET l == a.lo + b.lo
        h == a.hi + b.hi + (l \div 65536)
    IN  U32(h % 65536, l % 65536)

\* a - b modulo 2^32
Sub32(a, b) ==
    LET l == a.lo - b.lo
        borrow == IF l < 0 THEN 1 ELSE 0
        h == a.hi - b.hi - borrow
    IN  U32(h % 65536, l % 65536)

Lt32(a, b) == a.hi < b.hi \/ (a.hi = b.hi /\ a.lo < b.lo)

\* a >> n, 0 <= n <= 16
Shr32(a, n) ==
    LET p == Pow2(n)
        q == Pow2(16 - n)
    IN  U32(a.hi \div p, ((a.hi % p) * q + (a.lo \div p)) % 65536)

\* a << n modulo 2^32, 0 <= n <= 16
Shl32(a, n) ==
    LET p == Pow2(n)
        q == Pow2(16 - n)
    IN  U32(((a.hi % q) * p + (a.lo \div q)) % 65536, (a.lo % q) * p)

\* static_cast<uint16_t>(a)
Low16(a) == a.lo

\* the uint32_t of a value below 2^31
Word(n) == U32(n \div 65536, n % 65536)

---------------------------------------------------------------------------
(* Constants of Float16bits.cpp.                                           *)

kF32MantiBits == 23

kF32HalfMantiBitDiff == 13

kF32HalfBitDiff == 16

kF32BfMantiBitDiff == 16

\* 113 << kF32MantiBits, the float 2^-14
kF32Magic == Word(113 * Pow2(kF32MantiBits))

\* (127 - 15) << kF32MantiBits
kF32HalfExpAdjust == Word((127 - 15) * Pow2(kF32MantiBits))

\* 255 << kF32MantiBits
inf == Word(255 * Pow2(kF32MantiBits))

\* (127 + 16) << kF32MantiBits, the float 2^16
f16max == Word((127 + 16) * Pow2(kF32MantiBits))

\* ((127 - 15) + (kF32MantiBits - 10) + 1) << kF32MantiBits, the float 0.5
denormMagic == Word(((127 - 15) + (kF32MantiBits - 10) + 1) * Pow2(kF32MantiBits))

signMask == U32(32768, 0)

halfQnan == 32256  \* 0x7e00

halfInf == 31744   \* 0x7c00

\* 0x7c00 << kF32HalfMantiBitDiff
shiftedExp == Shl32(U32(0, 31744), kF32HalfMantiBitDiff)

\* 0xc8000fffU
expRoundBias == U32(51200, 4095)

---------------------------------------------------------------------------
(* Host binary32 arithmetic: the union member f of Float32Bits.            *)

Sign32(w) == w.hi \div 32768

Exp32(w) == (w.hi \div 128) % 256

Mant32(w) == (w.hi % 128) * 65536 + w.lo

\* the pattern with the sign bit cleared
Mag32(w) == U32(w.hi % 32768, w.lo)

\* significand and exponent: |w| = Sig32(w) * 2^(Ex32(w) - 150)
Sig32(w) == IF Exp32(w) = 0 THEN Mant32(w) ELSE Mant32(w) + Pow2(23)

Ex32(w) == IF Exp32(w) = 0 THEN 1 ELSE Exp32(w)

\* std::isnan
isnan(w) == Exp32(w) = 255 /\ Mant32(w) # 0

\* std::signbit
signbit(w) == Sign32(w) = 1

quietNaN32 == U32(32704, 0)

\* x >> d, the bits shifted out kept as a sticky bit 0
ShiftRightJam(x, d) ==
    IF d = 0 THEN x
    ELSE IF d >= 30 THEN (IF x # 0 THEN 1 ELSE 0)
    ELSE LET p == Pow2(d)
             q == x \div p
         IN  IF x % p # 0 /\ q % 2 = 0 THEN q + 1 ELSE q

\* Round the significand s3 (three extra low bits: guard, round, sticky) to
\* nearest, ties to even, and pack it with sign s and exponent e.
RoundPack(s, e, s3) ==
    LET rb == s3 % 8
        q0 == s3 \div 8
        q1 == IF rb > 4 \/ (rb = 4 /\ q0 % 2 = 1) THEN q0 + 1 ELSE q0
        carry == q1 >= Pow2(24)
        q == IF carry THEN q1 \div 2 ELSE q1
        e1 == IF carry THEN e + 1 ELSE e
        bits == IF q >= Pow2(23) /\ e1 >= 255 THEN 255 * Pow2(23)
                ELSE (e1 - 1) * Pow2(23) + q
    IN  U32(s * 32768 + (bits \div 65536), bits % 65536)

RECURSIVE Normalize(_, _)
Normalize(s3, e) ==
    IF s3 >= Pow2(26) \/ e = 1 \/ s3 = 0 THEN <<s3, e>>
    ELSE Normalize(2 * s3, e - 1)

\* |a| + |b| with sign s, for finite a and b with |a| >= |b|
AddMag(s, a, b) ==
    LET e == Ex32(a)
        sum == Sig32(a) * 8 + ShiftRightJam(Sig32(b) * 8, e - Ex32(b))
    IN  IF sum >= Pow2(27) THEN RoundPack(s, e + 1, ShiftRightJam(sum, 1))
        ELSE RoundPack(s, e, sum)

\* |a| - |b| with sign s, for finite a and b with |a| > |b|
SubMag(s, a, b) ==
    LET e == Ex32(a)
        diff == Sig32(a) * 8 - ShiftRightJam(Sig32(b) * 8, e - Ex32(b))
        n == Normalize(diff, e)
    IN  RoundPack(s, n[2], n[1])

\* a + b in binary32, round to nearest, ties to even
FAdd32(a, b) ==
    IF isnan(a) \/ isnan(b) THEN quietNaN32
    ELSE IF Exp32(a) = 255
         THEN (IF Exp32(b) = 255 /\ Sign32(a) # Sign32(b) THEN quietNaN32 ELSE a)
    ELSE IF Exp32(b) = 255 THEN b
    ELSE IF Sign32(a) = Sign32(b)
         THEN (IF Lt32(Mag32(a), Mag32(b)) THEN AddMag(Sign32(a), b, a)
               ELSE AddMag(Sign32(a), a, b))
    ELSE IF Mag32(a) = Mag32(b) THEN U32(0, 0)
    ELSE IF Lt32(Mag32(a), Mag32(b)) THEN SubMag(Sign32(b), b, a)
    ELSE SubMag(Sign32(a), a, b)

\* a - b in binary32
FSub32(a, b) == FAdd32(a, Xor32(b, signMask))

---------------------------------------------------------------------------
(* float2half                                                              *)

\* line 54, with ">=" for ">": Infinity becomes the quiet NaN
f2hOverflow_InfIsNaN(fu) == IF ~Lt32(fu, inf) THEN halfQnan ELSE halfInf

\* halfValue = (f.u > inf.u) ? halfQnan : halfInf;
f2hOverflow(fu) == IF Lt32(inf, fu) THEN halfQnan ELSE halfInf

\* lines 62-64 with the magic constant one exponent too low (0.25f)
f2hDenormal_Quarter(fu) ==
    LET magic == Word(((127 - 15) + (kF32MantiBits - 10)) * Pow2(kF32MantiBits))
    IN  Low16(Sub32(FAdd32(fu, magic), magic))

\* f.f += denormMagic.f; halfValue = static_cast<uint16_t>(f.u - denormMagic.u);
f2hDenormal(fu) == Low16(Sub32(FAdd32(fu, denormMagic), denormMagic))

\* lines 66-67 without the tie correction
mantOdd_Never(fu) == 0

\* uint32_t mantOdd = (f.u >> kF32HalfMantiBitDiff) & 1;
mantOdd(fu) == BitAnd(Shr32(fu, kF32HalfMantiBitDiff).lo, 1)

\* lines 72-75 with the rounding bias 0xfff added after the shift is taken
f2hNormal_Truncate(fu) ==
    Low16(Shr32(Add32(fu, U32(51200, 0)), kF32HalfMantiBitDiff))

\* f.u += 0xc8000fffU; f.u += mantOdd; halfValue = (uint16_t)(f.u >> 13);
f2hNormal(fu) ==
    LET f1 == Add32(fu, expRoundBias)
        f2 == Add32(f1, U32(0, mantOdd(fu)))
    IN  Low16(Shr32(f2, kF32HalfMantiBitDiff))

float2half(f) ==
    LET sign == And32(f, signMask)
        fu == Xor32(f, sign)
        h == IF ~Lt32(fu, f16max) THEN f2hOverflow(fu)
             ELSE IF Lt32(fu, kF32Magic) THEN f2hDenormal(fu)
             ELSE f2hNormal(fu)
    IN  BitOr(h, Low16(Shr32(sign, kF32HalfBitDiff)))

---------------------------------------------------------------------------
(* half2float                                                              *)

\* line 98 left out: Inf/NaN keep the exponent of 2^16
h2fInfNaN_Once(f1) == f1

\* f.u += kF32HalfExpAdjust;   (the second time, for Inf/NaN)
h2fInfNaN(f1) == Add32(f1, kF32HalfExpAdjust)

\* lines 101-102 without the exponent increment
h2fDenormal_NoBump(f1) == FSub32(f1, kF32Magic)

\* f.u += 1 << kF32MantiBits; f.f -= kF32Magic.f;
h2fDenormal(f1) == FSub32(Add32(f1, Word(Pow2(kF32MantiBits))), kF32Magic)

half2float(h) ==
    LET f0 == Shl32(U32(0, BitAnd(h, 32767)), kF32HalfMantiBitDiff)
        exp == And32(shiftedExp, f0)
        f1 == Add32(f0, kF32HalfExpAdjust)
        f2 == IF exp = shiftedExp THEN h2fInfNaN(f1)
              ELSE IF exp = U32(0, 0) THEN h2fDenormal(f1)
              ELSE f1
    IN  Or32(f2, Shl32(U32(0, BitAnd(h, 32768)), kF32HalfBitDiff))

---------------------------------------------------------------------------
(* float2bfloat, bfloat2float                                              *)

\* line 114 left out
bfIsNaN_Never(f) == FALSE

\* if (std::isnan(floatValue))
bfIsNaN(f) == isnan(f)

\* line 123 without the least significant bit
roundingBias_NoLsb(fu) == 32767

\* lsb = (floatBits.u >> 16) & 1; roundingBias = 0x7fff + lsb;
roundingBias(fu) ==
    LET lsb == BitAnd(Shr32(fu, kF32BfMantiBitDiff).lo, 1)
    IN  32767 + lsb

float2bfloat(f) ==
    IF bfIsNaN(f) THEN (IF signbit(f) THEN 65472 ELSE 32704)
    ELSE Low16(Shr32(Add32(f, Word(roundingBias(f))), kF32BfMantiBitDiff))

bfloat2float(b) == Shl32(U32(0, b), kF32BfMantiBitDiff)

---------------------------------------------------------------------------
(* kernel_bundle_impl::select_image_for_kernel                             *)

\* What the loop reads of a device image.
DeviceImage ==
    [has_kernel : BOOLEAN,
     is_any_specialization_constant_set : BOOLEAN,
     specialization_constants_replaced_with_default : BOOLEAN,
     all_specialization_constant_native : BOOLEAN]

\* nullptr
nullImage == 0

\* line 24 with "=" for "|=": an earlier image's set constants are forgotten
NewSpecConstsSet_Assign(img) == img.is_any_specialization_constant_set

\* SpecConstsSet |= DeviceImageImpl->is_any_specialization_constant_set();
NewSpecConstsSet(img) == SpecConstsSet \/ img.is_any_specialization_constant_set

\* lines 47-52
SelectWhenUnset(replaced, original) ==
    IF replaced # nullImage
       /\ ~MDeviceImages[replaced].all_specialization_constant_native
    THEN replaced
    ELSE original

\* if (SelectedImage && SelectedImage->all_specialization_constant_native()) break;
BreaksLoop(selected) ==
    selected # nullImage /\ MDeviceImages[selected].all_specialization_constant_native

\* if (!DeviceImage.has_kernel(KernelID)) continue;
LoopSkip ==
    /\ pc = "loop"
    /\ idx <= Len(MDeviceImages)
    /\ ~MDeviceImages[idx].has_kernel
    /\ idx' = idx + 1
    /\ UNCHANGED <<pc, MDeviceImages, SelectedImage, ImageWithReplacedSpecConsts,
                   OriginalImage, SpecConstsSet, halfValue, floatValue, result>>

\* one iteration of the loop for an image that has the kernel
LoopBody ==
    /\ pc = "loop"
    /\ idx <= Len(MDeviceImages)
    /\ MDeviceImages[idx].has_kernel
    /\ LET img == MDeviceImages[idx]
           set == NewSpecConstsSet(img)
           isReplaced == img.specialization_constants_replaced_with_default
           replaced == IF isReplaced THEN idx ELSE ImageWithReplacedSpecConsts
           original == IF isReplaced THEN OriginalImage ELSE idx
           selected == IF set THEN original ELSE SelectWhenUnset(replaced, original)
       IN  /\ SpecConstsSet' = set
           /\ ImageWithReplacedSpecConsts' = replaced
           /\ OriginalImage' = original
           /\ SelectedImage' = selected
           /\ IF set /\ BreaksLoop(selected)
              THEN pc' = "break" /\ idx' = idx
              ELSE pc' = "loop" /\ idx' = idx + 1
    /\ UNCHANGED <<MDeviceImages, halfValue, floatValue, result>>

\* the range is exhausted; return SelectedImage
LoopEnd ==
    /\ pc = "loop"
    /\ idx > Len(MDeviceImages)
    /\ pc' = "end"
    /\ UNCHANGED <<idx, MDeviceImages, SelectedImage, ImageWithReplacedSpecConsts,
                   OriginalImage, SpecConstsSet, halfValue, floatValue, result>>

InitBundle ==
    /\ pc = "loop"
    /\ MDeviceImages \in UNION {[1..n -> DeviceImage] : n \in 0..MaxImages}
    /\ idx = 1
    /\ SelectedImage = nullImage
    /\ ImageWithReplacedSpecConsts = nullImage
    /\ OriginalImage = nullImage
    /\ SpecConstsSet = FALSE
    /\ halfValue = 0
    /\ floatValue = U32(0, 0)
    /\ result = 0

NextBundle == LoopSkip \/ LoopBody \/ LoopEnd

SpecBundle == InitBundle /\ [][NextBundle]_vars

---------------------------------------------------------------------------
(* The codecs applied to their inputs.                                     *)

bundleIdle ==
    /\ MDeviceImages = <<>>
    /\ idx = 1
    /\ SelectedImage = nullImage
    /\ ImageWithReplacedSpecConsts = nullImage
    /\ OriginalImage = nullImage
    /\ SpecConstsSet = FALSE

\* operator<<(std::ostream &, const f16 &): half2float(f.bits)
Half2Float ==
    /\ pc = "half"
    /\ floatValue' = half2float(halfValue)
    /\ pc' = "halfDecoded"
    /\ UNCHANGED <<halfValue, result, bundleVars>>

\* f16::f16(float f) : bits(float2half(f)), on the decoded value
Float2HalfBack ==
    /\ pc = "halfDecoded"
    /\ result' = float2half(floatValue)
    /\ pc' = "halfReencoded"
    /\ UNCHANGED <<halfValue, floatValue, bundleVars>>

\* operator<<(std::ostream &, const bf16 &): bfloat2float(d.bits)
Bfloat2Float ==
    /\ pc = "bfloat"
    /\ floatValue' = bfloat2float(halfValue)
    /\ pc' = "bfloatDecoded"
    /\ UNCHANGED <<halfValue, result, bundleVars>>

\* bf16::bf16(float f) : bits(float2bfloat(f)), on the decoded value
Float2BfloatBack ==
    /\ pc = "bfloatDecoded"
    /\ result' = float2bfloat(floatValue)
    /\ pc' = "bfloatReencoded"
    /\ UNCHANGED <<halfValue, floatValue, bundleVars>>

\* f16::f16(float f) : bits(float2half(f))
Float2Half ==
    /\ pc = "float"
    /\ result' = float2half(floatValue)
    /\ pc' = "floatToHalf"
    /\ UNCHANGED <<halfValue, floatValue, bundleVars>>

\* bf16::bf16(float f) : bits(float2bfloat(f)); __truncsfbf2
Float2Bfloat ==
    /\ pc = "float"
    /\ result' = float2bfloat(floatValue)
    /\ pc' = "floatToBfloat"
    /\ UNCHANGED <<halfValue, floatValue, bundleVars>>

\* every 16-bit pattern
Patterns16 == 0..65535

NearTo(c, limit) == {x \in (c - Spread)..(c + Spread) : 0 <= x /\ x <= limit}

\* 23-bit mantissas around the places where float2half rounds (bit 13)
HalfMants ==
    {h * 8192 + l : h \in NearTo(0, 1023) \cup NearTo(1023, 1023),
                    l \in NearTo(0, 8191) \cup NearTo(4096, 8191) \cup NearTo(8191, 8191)}

\* 23-bit mantissas around the places where float2bfloat rounds (bit 16)
BfMants ==
    {t * 65536 + l : t \in NearTo(0, 127) \cup NearTo(127, 127),
                     l \in NearTo(0, 65535) \cup NearTo(32768, 65535)
                           \cup NearTo(65535, 65535)}

\* 70000.0f (0x4788B800)
NamedFloats == {U32(18312, 47104)}

Floats32 ==
    {U32(s * 32768 + e * 128 + (m \div 65536), m % 65536) :
        s \in 0..1, e \in 0..255, m \in HalfMants \cup BfMants}
    \cup NamedFloats

InitHalf ==
    /\ pc = "half"
    /\ halfValue \in Patterns16
    /\ floatValue = U32(0, 0)
    /\ result = 0
    /\ bundleIdle

NextHalf == Half2Float \/ Float2HalfBack

SpecHalf == InitHalf /\ [][NextHalf]_vars

InitBfloat ==
    /\ pc = "bfloat"
    /\ halfValue \in Patterns16
    /\ floatValue = U32(0, 0)
    /\ result = 0
    /\ bundleIdle

NextBfloat == Bfloat2Float \/ Float2BfloatBack

SpecBfloat == InitBfloat /\ [][NextBfloat]_vars

InitFloat ==
    /\ pc = "float"
    /\ floatValue \in Floats32
    /\ halfValue = 0
    /\ result = 0
    /\ bundleIdle

NextFloat == Float2Half \/ Float2Bfloat

SpecFloat == InitFloat /\ [][NextFloat]_vars

Init == InitHalf \/ InitBfloat \/ InitFloat \/ InitBundle

Next == NextHalf \/ NextBfloat \/ NextFloat \/ NextBundle

Spec == Init /\ [][Next]_vars

---------------------------------------------------------------------------
(* Reference arithmetic for the properties: fields of the patterns read    *)
(* as integers, independently of the limb operations above.                *)

\* the low 31 bits of a binary32 pattern, as an integer
Magnitude(w) == (w.hi % 32768) * 65536 + w.lo

SignOf(w) == w.hi \div 32768

\* x / 2^d rounded to the nearest integer, ties to even
RoundShift(x, d) ==
    LET p == Pow2(d)
        q == x \div p
        r == x % p
    IN  IF 2 * r > p \/ (2 * r = p /\ q % 2 = 1) THEN q + 1 ELSE q

HalfExp(p) == (p \div 1024) % 32

HalfMant(p) == p % 1024

HalfSign(p) == p \div 32768

HalfIsNaN(p) == HalfExp(p) = 31 /\ HalfMant(p) # 0

BfIsNaNPattern(p) == (p \div 128) % 256 = 255 /\ p % 128 # 0

RECURSIVE Log2Floor(_)
Log2Floor(n) == IF n <= 1 THEN 0 ELSE 1 + Log2Floor(n \div 2)

\* the binary32 pattern with sign s, exponent field e and mantissa m
Binary32(s, e, m) == U32(s * 32768 + e * 128 + (m \div 65536), m % 65536)

\* the binary32 pattern of the value the half pattern p denotes
HalfAsBinary32(p) ==
    LET s == HalfSign(p)
        e == HalfExp(p)
        f == HalfMant(p)
        k == Log2Floor(f)
    IN  IF e = 31 THEN Binary32(s, 255, f * 8192)
        ELSE IF e > 0 THEN Binary32(s, e + 112, f * 8192)
        ELSE IF f = 0 THEN Binary32(s, 0, 0)
        ELSE Binary32(s, k + 103, (f - Pow2(k)) * Pow2(23 - k))

\* the half pattern read back from a binary32 pattern in the decoder's range
HalfReadBack(w) ==
    LET m == Magnitude(w)
        e == m \div 8388608
        f == m % 8388608
    IN  SignOf(w) * 32768 +
        (IF e = 255 THEN 31744 + (f \div 8192)
         ELSE IF e >= 113 THEN (e - 112) * 1024 + (f \div 8192)
         ELSE IF e = 0 THEN 0
         ELSE (8388608 + f) \div Pow2(126 - e))

---------------------------------------------------------------------------
(* Properties.                                                             *)

\* C1: decoding a half pattern p and encoding the value again gives p when
\* p is a normal, subnormal, zero or Infinity pattern, and the quiet NaN
\* 0x7E00 with the sign bit of p when p is a NaN pattern.
C1_HalfRoundTrip ==
    pc = "halfReencoded" =>
        IF HalfIsNaN(halfValue)
        THEN result = 32256 + HalfSign(halfValue) * 32768
        ELSE result = halfValue

\* a negative NaN with payload 1 came back as 0xFE00
C1_Witness == pc = "halfReencoded" /\ halfValue = 64513 /\ result = 65024

\* C2: decoding a bf16 pattern p and encoding the value again gives p when
\* p is not a NaN pattern, and 0x7FC0 / 0xFFC0 by the sign of p when it is.
C2_BfloatRoundTrip ==
    pc = "bfloatReencoded" =>
        IF BfIsNaNPattern(halfValue)
        THEN result = (IF halfValue >= 32768 THEN 65472 ELSE 32704)
        ELSE result = halfValue

\* a negative NaN with payload 0x7F came back as 0xFFC0
C2_Witness == pc = "bfloatReencoded" /\ halfValue = 65535 /\ result = 65472

\* C3 as stated: float2half(65520.0f) is the largest finite half 0x7BFF,
\* not Infinity.
C3_Original ==
    (pc = "floatToHalf" /\ floatValue = U32(18303, 61440)) =>
        (result = 31743 /\ HalfExp(result) # 31)

\* C3 amended: float2half(65520.0f), the tie between 65504 and 2^16, is the
\* Infinity pattern 0x7C00; the inputs from 65504.0f up to, not including,
\* 65520.0f (0x477FE000 .. 0x477FEFFF) give the largest finite half 0x7BFF.
C3_TopOfRange ==
    pc = "floatToHalf" =>
        /\ floatValue = U32(18303, 61440) => result = 31744
        /\ (floatValue.hi = 18303 /\ 57344 <= floatValue.lo /\ floatValue.lo < 61440)
              => result = 31743

C3_Witness == pc = "floatToHalf" /\ floatValue = U32(18303, 61440) /\ result = 31744

\* C4: for magnitude bits m >= 0x47800000 float2half returns 0x7E00 | sign
\* when m > 0x7F800000 and 0x7C00 | sign otherwise.
C4_OverflowRegion ==
    (pc = "floatToHalf" /\ Magnitude(floatValue) >= 1199570944) =>
        result = SignOf(floatValue) * 32768 +
                 (IF Magnitude(floatValue) > 2139095040 THEN 32256 ELSE 31744)

\* 70000.0f gave Infinity
C4_Witness == pc = "floatToHalf" /\ floatValue = U32(18312, 47104) /\ result = 31744

\* C5: for 0x38800000 <= m < 0x47800000 float2half returns sign | h, h being
\* m - 0x38000000 with its low 13 bits rounded away to nearest, ties to even.
C5_NormalRange ==
    (pc = "floatToHalf" /\ 947912704 <= Magnitude(floatValue)
                        /\ Magnitude(floatValue) < 1199570944) =>
        result = SignOf(floatValue) * 32768
                 + RoundShift(Magnitude(floatValue) - 939524096, 13)

\* -(1 + 3 * 2^-11), a tie above an odd mantissa, went up to 0xBC02
C5_Witness == pc = "floatToHalf" /\ floatValue = U32(49024, 12288) /\ result = 48130

\* C6: for m < 0x38800000 float2half returns sign | n, n being |x| / 2^-24
\* rounded to the nearest integer, ties to even, 0 <= n <= 0x0400; the zeros
\* keep their sign and magnitudes up to 2^-25 give zero.
C6_SubnormalRange ==
    (pc = "floatToHalf" /\ Magnitude(floatValue) < 947912704) =>
        LET m == Magnitude(floatValue)
            e == m \div 8388608
            sig == IF e = 0 THEN m ELSE 8388608 + (m % 8388608)
            d == IF e = 0 THEN 125 ELSE 126 - e
            n == IF d > 25 THEN 0 ELSE RoundShift(sig, d)
        IN  /\ result = SignOf(floatValue) * 32768 + n
            /\ n <= 1024
            /\ m <= 855638016 => n = 0

\* the largest binary32 below 2^-14 went up to the smallest normal half
C6_Witness == pc = "floatToHalf" /\ floatValue = U32(14463, 65535) /\ result = 1024

\* C7: float2bfloat returns 0x7FC0 / 0xFFC0 by sign for a NaN, and otherwise
\* the top 16 bits rounded on the low 16 bits to nearest, ties to even, the
\* sum not wrapping, the sign unchanged and the result not a NaN pattern.
C7_BfloatRounding ==
    pc = "floatToBfloat" =>
        LET m == Magnitude(floatValue)
            top == floatValue.hi
            low == floatValue.lo
            up == low > 32768 \/ (low = 32768 /\ top % 2 = 1)
        IN  IF m > 2139095040
            THEN result = (IF SignOf(floatValue) = 1 THEN 65472 ELSE 32704)
            ELSE /\ result = top + (IF up THEN 1 ELSE 0)
                 /\ result \div 32768 = SignOf(floatValue)
                 /\ ~BfIsNaNPattern(result)
                 /\ (m = 2139095039 => result % 32768 = 32640)

\* 0x3F818000, a tie above an odd mantissa, went up to 0x3F82
C7_Witness == pc = "floatToBfloat" /\ floatValue = U32(16257, 32768) /\ result = 16258

\* C8: half2float returns the binary32 of the value the pattern denotes
\* (exponent field e + 112 and mantissa f << 13 for a normal pattern, 0xFF
\* and f << 13 for an all-ones exponent, f * 2^-24 normalised for a zero
\* exponent), the pattern can be read back from it, and 0x3C00 gives 1.0f.
C8_HalfDecodeExact ==
    pc = "halfDecoded" =>
        /\ floatValue = HalfAsBinary32(halfValue)
        /\ HalfReadBack(floatValue) = halfValue
        /\ halfValue = 15360 => floatValue = U32(16256, 0)

\* the smallest negative subnormal decoded to -2^-24 (0xB3800000)
C8_Witness == pc = "halfDecoded" /\ halfValue = 32769 /\ floatValue = U32(45952, 0)

\* the images the loop visited when select_image_for_kernel returns
Returned == pc \in {"break", "end"}

Visited == IF pc = "break" THEN 1..idx ELSE 1..(idx - 1)

Candidates(S) == {j \in S : MDeviceImages[j].has_kernel}

Originals(S) ==
    {j \in Candidates(S) :
        ~MDeviceImages[j].specialization_constants_replaced_with_default}

LastOf(S) == IF S = {} THEN nullImage ELSE CHOOSE j \in S : \A k \in S : k <= j

SetSeen(S) ==
    \E j \in Candidates(S) : MDeviceImages[j].is_any_specialization_constant_set

\* C9: when a visited candidate has a specialization constant set, the
\* result is the last visited candidate whose constants were not replaced
\* with defaults (null when there is none), never a replaced image; a
\* non-null result is always an image of the bundle that has the kernel.
C9_NeverReplacedWhenSet ==
    Returned =>
        /\ SetSeen(Visited) =>
              /\ SelectedImage = LastOf(Originals(Visited))
              /\ SelectedImage # nullImage =>
                    ~MDeviceImages[SelectedImage]
                        .specialization_constants_replaced_with_default
        /\ SelectedImage # nullImage =>
              /\ SelectedImage \in 1..Len(MDeviceImages)
              /\ MDeviceImages[SelectedImage].has_kernel

\* a set image, then a replaced non-native image: the original was returned
C9_Witness ==
    /\ pc = "end"
    /\ Len(MDeviceImages) = 3
    /\ Candidates(1..3) = 1..3
    /\ MDeviceImages[1].is_any_specialization_constant_set
    /\ ~MDeviceImages[1].specialization_constants_replaced_with_default
    /\ ~MDeviceImages[1].all_specialization_constant_native
    /\ ~MDeviceImages[2].is_any_specialization_constant_set
    /\ MDeviceImages[2].specialization_constants_replaced_with_default
    /\ ~MDeviceImages[2].all_specialization_constant_native
    /\ MDeviceImages[3].specialization_constants_replaced_with_default
    /\ SelectedImage = 1

\* C10: when a candidate has a specialization constant set and the bundle
\* holds a candidate original image with native support, the returned image
\* is an original image with native support, whatever the order.
C10_NativePreferred ==
    (/\ Returned
     /\ SetSeen(1..Len(MDeviceImages))
     /\ \E j \in Originals(1..Len(MDeviceImages)) :
            MDeviceImages[j].all_specialization_constant_native) =>
        /\ SelectedImage # nullImage
        /\ MDeviceImages[SelectedImage].all_specialization_constant_native
        /\ ~MDeviceImages[SelectedImage].specialization_constants_replaced_with_default

===========================================================================
